---------------------------- MODULE Spec2Model ----------------------------
(***************************************************************************)
(* A model of prefect's FlowRunner (src/src/prefect/engine/flow_runner.py):*)
(* FlowRunner.run, its three flow-level transitions and the dispatch and   *)
(* aggregation of get_flow_run_state, running against an executor whose    *)
(* submitted units (TaskRunner.run) execute concurrently with the          *)
(* single-threaded dispatch loop.                                          *)
(*                                                                         *)
(* The State classes, the Flow graph queries, the Runner's                 *)
(* call_state_handlers decorator, the executors and the TaskRunner are not *)
(* part of flow_runner.py; they are modelled from the specification text.  *)
(***************************************************************************)
EXTENDS Naturals, Integers, Sequences, FiniteSets, TLC

(***************************************************************************)
(* Bounds of the model.                                                    *)
(***************************************************************************)
\* largest ticket budget a throttle map gives a tag
MaxBudget == 2
\* largest number of child states of a mapped task
MaxMap == 2
\* number of consecutive calls of run on the same runner
MaxRuns == 2

(***************************************************************************)
(* State algebra (spec section 3): a state is a tagged variant; the        *)
(* predicates are the category predicates of the table.                    *)
(***************************************************************************)
is_finished(k) == k \in {"Success", "Cached", "Failed", "TriggerFailed", "Skipped", "TimedOut"}

is_pending(k) == k \in {"Pending", "Scheduled", "Retrying"}

is_running(k) == k = "Running"

is_successful(k) == k \in {"Success", "Cached", "Skipped"}

is_failed(k) == k \in {"Failed", "TriggerFailed", "TimedOut"}

is_skipped(k) == k = "Skipped"

\* isinstance(state, (Failed, Retrying)): the Failed family or Retrying
IsFailedOrRetrying(k) == is_failed(k) \/ k = "Retrying"

(***************************************************************************)
(* A task state value: either one scalar state (list = FALSE, st of length *)
(* 1) or the sequence of child states of a mapped task (list = TRUE).      *)
(* msg carries the state's message where the model needs it, and          *)
(* cached_inputs whether the state's cached_inputs is a mapping ("dict")   *)
(* or None.                                                                *)
(***************************************************************************)
Scalar(k) == [list |-> FALSE, st |-> <<k>>, msg |-> "", cached_inputs |-> "None"]

Mapped(ks) == [list |-> TRUE, st |-> ks, msg |-> "", cached_inputs |-> "None"]

\* a state built with cached_inputs={...}
WithCachedInputs(v) == [v EXCEPT !.cached_inputs = "dict"]

\* the defaultdict's factory: Failed(message="Task state not available.")
DefaultState ==
    [list |-> FALSE, st |-> <<"Failed">>, msg |-> "Task state not available.",
     cached_inputs |-> "None"]

NoState == [list |-> FALSE, st |-> <<>>, msg |-> "", cached_inputs |-> "None"]

\* flatten_seq over one state value: the scalar itself, or every child
Range(s) == {s[i] : i \in 1..Len(s)}

\* a variant that takes the first child of a list only
flatten_seq_first(v) == IF v.st = <<>> THEN {} ELSE {v.st[1]}

flatten_seq(v) == Range(v.st)

(***************************************************************************)
(* An entry of the working task_states mapping: absent, a state value      *)
(* (supplied by the caller or inserted by the defaultdict), or the future  *)
(* returned by executor.submit / executor.map for that task in this run.   *)
(***************************************************************************)
Absent == [kind |-> "absent", val |-> NoState]

Value(v) == [kind |-> "value", val |-> v]

Future == [kind |-> "future", val |-> NoState]

(***************************************************************************)
(* A flow state: type, message and result (has = FALSE: no result).        *)
(***************************************************************************)
NoResult == [has |-> FALSE, map |-> <<>>]

Result(m) == [has |-> TRUE, map |-> m]

FlowState(k, m, r) == [type |-> k, message |-> m, result |-> r]

(***************************************************************************)
(* Flows (spec section 3, Flow).  Every flow has the tasks A, B, C, the    *)
(* diamond has D as well; Z is a task of no flow.                          *)
(***************************************************************************)
FlowIds == {"linear", "fork", "mapped", "tagged", "fanout", "mapchain", "diamond"}

AllTasks == {"A", "B", "C", "D", "Z"}

tasks(f) == IF f = "diamond" THEN {"A", "B", "C", "D"} ELSE {"A", "B", "C"}

edges(f) ==
    CASE f = "linear" -> {<<"A", "B">>, <<"B", "C">>}
      [] f = "fork"   -> {<<"A", "B">>, <<"A", "C">>}
      [] f = "mapped" -> {<<"A", "B">>, <<"B", "C">>}
      [] f = "fanout" -> {<<"A", "B">>, <<"A", "C">>}
      [] f = "mapchain" -> {<<"A", "B">>, <<"B", "C">>}
      [] f = "diamond" -> {<<"A", "B">>, <<"A", "C">>, <<"B", "D">>, <<"C", "D">>}
      [] OTHER        -> {}

\* task_info[task]["mapped"]
mapped(f, t) == (f \in {"mapped", "fanout"} /\ t = "B") \/ (f = "mapchain" /\ t \in {"B", "C"})

\* task.tags, in the order the task declares them
tags(f, t) ==
    IF f # "tagged" THEN <<>>
    ELSE CASE t = "A" -> <<"db", "api">>
           [] t = "B" -> <<"api", "db">>
           [] OTHER   -> <<"db">>

ThrottleTags == {"api", "db"}

upstream_tasks(f, t) == {e[1] : e \in {x \in edges(f) : x[2] = t}}

downstream_tasks(f, t) == {e[2] : e \in {x \in edges(f) : x[1] = t}}

root_tasks(f) == {t \in tasks(f) : upstream_tasks(f, t) = {}}

terminal_tasks(f) == {t \in tasks(f) : downstream_tasks(f, t) = {}}

\* the tasks reachable from roots along the edges
RECURSIVE Reach(_, _)
Reach(f, S) ==
    LET more == S \cup UNION {downstream_tasks(f, t) : t \in S}
    IN  IF more = S THEN S ELSE Reach(f, more)

\* the task set of sorted_tasks(root_tasks): the subgraph reachable from
\* the roots; an empty root list stands for the flow's own roots
sorted_set(f, roots) == IF roots = {} THEN Reach(f, root_tasks(f)) ELSE Reach(f, roots)


(***************************************************************************)
(* The arguments of one call of FlowRunner.run (and the attributes of the  *)
(* flow it runs), as one record:                                           *)
(*   flow, ref            the flow and its reference_tasks()               *)
(*   state0               the starting flow state                          *)
(*   start                start_tasks ({} when omitted)                    *)
(*   supplied             task_states (Absent where the caller gave none)  *)
(*   ret, retFailed       return_tasks, return_failed                      *)
(*   throttle             the throttle argument (empty when omitted)       *)
(*   flowThrottle         flow.throttle                                    *)
(*   handlers             flow.state_handlers                              *)
(*   roe                  _raise_on_exception in the merged context        *)
(***************************************************************************)
NoThrottle == [tag \in {} |-> 0]

NoSupplied(f) == [t \in tasks(f) |-> Absent]

\* no bindings
NoContext == [k \in {} |-> ""]

\* context: the caller's context argument; prior: the bindings of the
\* process-wide prefect.context when run is called
Config(f, rf, s0, st, sup, rt, rfl, th, fth, hs, r) ==
    [flow |-> f, ref |-> rf, state0 |-> s0, start |-> st, supplied |-> sup,
     ret |-> rt, retFailed |-> rfl, throttle |-> th, flowThrottle |-> fth,
     handlers |-> hs, roe |-> r, context |-> NoContext, prior |-> NoContext]

PendingFlow == FlowState("Pending", "", NoResult)

\* task states a caller may supply for one task
SuppliedScalars == {"Pending", "Retrying", "Success", "Failed"}

\* a Pending or Retrying state is supplied with its cached inputs
SuppliedScalar(k) == IF is_pending(k) THEN WithCachedInputs(Scalar(k)) ELSE Scalar(k)

SuppliedFor(f, t) ==
    {SuppliedScalar(k) : k \in SuppliedScalars}
        \cup (IF mapped(f, t) THEN {Mapped(<<"Success", "Failed">>)} ELSE {})

\* task_states giving a state to at most one task
SuppliedMaps(f) ==
    {NoSupplied(f)}
        \cup {[NoSupplied(f) EXCEPT ![t] = Value(v)] : <<t, v>> \in
                UNION {{<<t, v>> : v \in SuppliedFor(f, t)} : t \in tasks(f)}}

\* throttle maps: every map from a set of tags to budgets -1 .. MaxBudget
ThrottleMaps == UNION {[S -> (0 - 1)..MaxBudget] : S \in SUBSET ThrottleTags}

ValidThrottleMaps == UNION {[S -> 1..MaxBudget] : S \in SUBSET ThrottleTags}

\* state handlers: "id" returns the new state, "fail" substitutes a Failed
\* state of its own making (no result), "pend" substitutes a Pending state
\* that it gives the new state's result
HandlerChains == {<<>>, <<"id">>, <<"pend">>, <<"fail">>, <<"id", "pend">>}

StartingStates ==
    {FlowState(k, "", NoResult) :
        k \in {"Pending", "Scheduled", "Running", "Success", "Failed", "State"}}

\* scheduling: start_tasks, one supplied task state, return_failed
SchedConfigsOf(f) ==
    {Config(f, terminal_tasks(f), PendingFlow, st, sup, rt, rfl, NoThrottle, NoThrottle, <<>>, FALSE) :
        st \in SUBSET tasks(f), sup \in SuppliedMaps(f), rt \in {{}, tasks(f)}, rfl \in BOOLEAN}

SchedConfigs == UNION {SchedConfigsOf(f) : f \in {"linear", "fork", "mapped"}}

\* reference tasks other than the terminal tasks
RefConfigsOf(f) ==
    {Config(f, rf, PendingFlow, {}, NoSupplied(f), {}, rfl, NoThrottle, NoThrottle, <<>>, FALSE) :
        rf \in {{"A"}, {"B"}, {"A", "C"}}, rfl \in BOOLEAN}

RefConfigs == UNION {RefConfigsOf(f) : f \in {"linear", "mapped"}}

\* lifecycle: starting flow state, state handlers, _raise_on_exception
LifeConfigs ==
    {Config("linear", terminal_tasks("linear"), s0, st, sup, {"C"}, FALSE, NoThrottle, NoThrottle, hs, r) :
        s0 \in StartingStates, st \in {{}, {"B"}},
        sup \in {NoSupplied("linear"), [NoSupplied("linear") EXCEPT !["B"] = Value(Scalar("Success"))]},
        hs \in HandlerChains, r \in BOOLEAN}

\* pre-flight: throttle maps of the call and of the flow, return_tasks
PreflightConfigs ==
    {Config("tagged", terminal_tasks("tagged"), s0, {}, NoSupplied("tagged"), rt, FALSE, th, fth, <<>>, FALSE) :
        s0 \in {PendingFlow, FlowState("Success", "", NoResult)},
        rt \in {{}, {"A"}, {"Z"}, {"A", "Z"}}, th \in ThrottleMaps,
        fth \in {NoThrottle, [tag \in {"db"} |-> 0], [tag \in {"db"} |-> 1]}}

\* a mapped terminal task, in and out of the reference tasks
MapConfigs ==
    {Config("fanout", rf, PendingFlow, {}, NoSupplied("fanout"), rt, FALSE, NoThrottle, NoThrottle,
            <<>>, FALSE) :
        rf \in {{"B"}, {"C"}, {"B", "C"}}, rt \in {{}, {"B"}}}

\* a mapped task downstream of a mapped task
ChainConfigs ==
    {Config("mapchain", {"C"}, PendingFlow, {}, NoSupplied("mapchain"), {}, rfl, NoThrottle,
            NoThrottle, <<>>, FALSE) : rfl \in BOOLEAN}

\* bindings the process-wide context holds before the call, one of them
\* under a key the run binds
OuterContext == [k \in {"x", "_flow_name"} |-> IF k = "x" THEN "1" ELSE "outer"]

\* a caller's context that rebinds x and binds y
CallerContext == [k \in {"x", "y"} |-> IF k = "x" THEN "2" ELSE "3"]

\* scoped context: every way out of run, with and without a caller's
\* context
ContextConfigs ==
    {[Config("linear", {"C"}, s0, st, sup, {}, FALSE, NoThrottle, fth, <<>>, r)
        EXCEPT !.context = cx, !.prior = OuterContext] :
        s0 \in {PendingFlow, FlowState("Success", "", NoResult)}, st \in {{}, {"B"}},
        sup \in {NoSupplied("linear"), [NoSupplied("linear") EXCEPT !["B"] = Value(Scalar("Success"))]},
        fth \in {NoThrottle, [tag \in {"db"} |-> 0]}, r \in BOOLEAN,
        cx \in {NoContext, CallerContext}}

\* the diamond A -> {B, C} -> D, reference tasks = terminal tasks
DiamondConfigs ==
    {Config("diamond", terminal_tasks("diamond"), PendingFlow, {}, NoSupplied("diamond"), rt, FALSE,
            NoThrottle, NoThrottle, <<>>, FALSE) : rt \in {{}, {"D"}}}

\* a Pending or Retrying state built without cached inputs (cached_inputs
\* None) supplied for one task, in and out of start_tasks
UncachedConfigs ==
    {Config(f, {"C"}, PendingFlow, st, [NoSupplied(f) EXCEPT ![t] = Value(Scalar(k))], {}, rfl,
            NoThrottle, NoThrottle, <<>>, r) :
        f \in {"linear", "mapped"}, t \in {"B", "C"}, k \in {"Pending", "Retrying"},
        st \in {{}, {"B"}, {"C"}}, rfl \in BOOLEAN, r \in BOOLEAN}

Configs ==
    SchedConfigs \cup RefConfigs \cup LifeConfigs \cup PreflightConfigs \cup MapConfigs
        \cup ChainConfigs \cup ContextConfigs \cup DiamondConfigs \cup UncachedConfigs

\* throttled runs: three tagged tasks under every throttle map; the flow's
\* own map is used when the call gives none; and one run of the flow with
\* a mapped task, whose tasks carry no tag
ThrottleConfigs ==
    {Config("tagged", terminal_tasks("tagged"), PendingFlow, {}, NoSupplied("tagged"), {}, FALSE, th,
            [tag \in {"db"} |-> 1], <<>>, FALSE) :
        th \in ThrottleMaps}
    \cup {Config("mapped", terminal_tasks("mapped"), PendingFlow, {}, NoSupplied("mapped"), {},
                  FALSE, [tag \in {"db"} |-> 1], NoThrottle, <<>>, FALSE)}

(***************************************************************************)
(* The state of a run.                                                     *)
(***************************************************************************)
VARIABLES
    cfg,             \* the arguments of the call
    run,             \* 1 for the first call of run, 2 for the second, ...
    start0,          \* the starting flow state of the current call
    pc,              \* position of FlowRunner.run
    state,           \* the local variable `state` of run
    exc,             \* the exception run raised or trapped ("" = none)
    ctxPushed,       \* inside `with prefect.context(context)`
    context,         \* the bindings of the process-wide prefect.context
    previous,        \* the bindings the context manager saved on entry
    executorStarted, \* executor.start() was entered in the current call
    handlerLog,      \* the flow state handler calls: <<handler, old, new>>
    taskStates,      \* the working task_states defaultdict
    queues,          \* tag -> number of tickets in the tag's queue
    dispatchOrder,   \* the tasks handed to the executor, in order
    disp,            \* task -> the arguments of its submit / map call
    phase,           \* task -> position of its dispatched unit
    held,            \* task -> number of its queues it holds a ticket of
    result,          \* task -> the state its future resolved to
    final,           \* what aggregation computed
    waits,           \* the executor.wait calls of the current call
    left             \* how the try block of run was left

\* the variables of the run context
ctx == <<ctxPushed, context, previous>>

vars == <<cfg, run, start0, pc, state, exc, ctx, executorStarted, handlerLog,
          taskStates, queues, dispatchOrder, disp, phase, held, result, final, waits, left>>

flow == cfg.flow

\* the arguments of a dispatch that has not happened
NoDispatch ==
    [done |-> FALSE, kind |-> "", up |-> <<>>, state |-> Absent, inputs |-> FALSE,
     ignore |-> FALSE, queues |-> <<>>, flowState |-> ""]

\* aggregation has not happened
NoFinal ==
    [done |-> FALSE, states |-> <<>>, ret |-> {}, read |-> {}, classified |-> PendingFlow]

\* the try block has not been left
NotLeft == [how |-> "", at |-> "", carried |-> PendingFlow]

InitRun(c, n, s0) ==
    /\ cfg = c
    /\ run = n
    /\ start0 = s0
    /\ pc = "start"
    /\ state = s0
    /\ exc = ""
    /\ ctxPushed = FALSE
    /\ context = c.prior
    /\ previous = NoContext
    /\ executorStarted = FALSE
    /\ handlerLog = <<>>
    /\ taskStates = [t \in tasks(c.flow) |-> Absent]
    /\ queues = NoThrottle
    /\ dispatchOrder = <<>>
    /\ disp = [t \in tasks(c.flow) |-> NoDispatch]
    /\ phase = [t \in tasks(c.flow) |-> "none"]
    /\ held = [t \in tasks(c.flow) |-> 0]
    /\ result = [t \in tasks(c.flow) |-> NoState]
    /\ final = NoFinal
    /\ waits = <<>>
    /\ left = NotLeft

Init == \E c \in Configs : InitRun(c, 1, c.state0)

InitThrottle == \E c \in ThrottleConfigs : InitRun(c, 1, c.state0)


(***************************************************************************)
(* State handlers (Runner.call_state_handlers, spec section 4.4: "each     *)
(* wrapped in state handlers").  A transition method returns the state it  *)
(* computed, whether it is a new state object (changed) and whether it     *)
(* left through ENDRUN (end).                                              *)
(***************************************************************************)
Outcome(e, s, ch) == [end |-> e, state |-> s, changed |-> ch]

\* one user state handler called with (flow, old_state, new_state); what
\* it returns is the new state from there on, whatever it is
ApplyHandler(h, old, new) ==
    CASE h = "pend" -> FlowState("Pending", "handler", new.result)
      [] h = "fail" -> FlowState("Failed", "handler", NoResult)
      [] OTHER      -> new

\* FlowRunner.call_runner_target_handlers: every handler of the flow, in
\* order, each given the previous handler's output
RECURSIVE call_runner_target_handlers(_, _, _)
call_runner_target_handlers(hs, old, new) ==
    IF hs = <<>> THEN new
    ELSE call_runner_target_handlers(Tail(hs), old, ApplyHandler(Head(hs), old, new))

\* the handler calls made for one state change: <<handler, old, new given>>
RECURSIVE HandlerCalls(_, _, _)
HandlerCalls(hs, old, new) ==
    IF hs = <<>> THEN <<>>
    ELSE <<<<Head(hs), old.type, new.type>>>>
            \o HandlerCalls(Tail(hs), old, ApplyHandler(Head(hs), old, new))

\* the decorator: handlers run only when the method produced a new state
call_state_handlers(hs, old, r) ==
    IF r.changed
    THEN [r EXCEPT !.state = call_runner_target_handlers(hs, old, r.state)]
    ELSE r

LoggedCalls(hs, old, r) == IF r.changed THEN HandlerCalls(hs, old, r.state) ELSE <<>>

(***************************************************************************)
(* FlowRunner.run: pre-flight                                              *)
(***************************************************************************)
\* throttle = throttle or self.flow.throttle
EffectiveThrottle(c) == IF DOMAIN c.throttle # {} THEN c.throttle ELSE c.flowThrottle

\* a variant that rejects negative budgets only
BadThrottle_strict(th) == \E tag \in DOMAIN th : th[tag] < 0

\* min(throttle.values(), default=1) <= 0
BadThrottle(th) == \E tag \in DOMAIN th : th[tag] <= 0

\* return_tasks.difference(self.flow.tasks)
BadReturnTasks(c) == c.ret \ tasks(c.flow) # {}

\* a variant of the run bindings without _executor_id
RunContext_noExecutor(c) ==
    [k \in {"_flow_name", "_flow_version", "_parameters"} |->
        CASE k = "_flow_name" -> c.flow
          [] k = "_flow_version" -> "version"
          [] OTHER -> "parameters"] @@ c.context

\* context.update(_flow_name=..., _flow_version=..., _parameters=...,
\* _executor_id=...): the caller's context with the run's bindings
RunContext(c) ==
    [k \in {"_flow_name", "_flow_version", "_parameters", "_executor_id"} |->
        CASE k = "_flow_name" -> c.flow
          [] k = "_flow_version" -> "version"
          [] k = "_parameters" -> "parameters"
          [] OTHER -> "executor"] @@ c.context

\* with prefect.context(context): the manager saves the bindings and
\* updates them with the run context
PushContext ==
    /\ ctxPushed' = TRUE
    /\ previous' = context
    /\ context' = RunContext(cfg) @@ context

\* leaving the with block: the saved bindings are put back
PopContext ==
    /\ ctxPushed' = FALSE
    /\ context' = previous
    /\ UNCHANGED previous

Preflight ==
    /\ pc = "start"
    /\ IF BadThrottle(EffectiveThrottle(cfg)) \/ BadReturnTasks(cfg)
       THEN /\ pc' = "raised"
            /\ exc' = "ValueError"
            /\ UNCHANGED ctx
       ELSE /\ pc' = "check"
            /\ PushContext
            /\ UNCHANGED exc
    /\ UNCHANGED <<cfg, run, start0, state, executorStarted, handlerLog, taskStates,
                   queues, dispatchOrder, disp, phase, held, result, final, waits, left>>

(***************************************************************************)
(* FlowRunner.run: how the try block is left                               *)
(***************************************************************************)
\* a variant that turns an ENDRUN into a Failed state
OnEndrun_asFailed(carried) == FlowState("Failed", "ENDRUN", NoResult)

\* except ENDRUN as exc: state = exc.state
OnEndrun(carried) == carried

\* a variant that never re-raises
OnException_swallow(s, e, roe) ==
    [pc |-> "returned", state |-> FlowState("Failed", e, NoResult), exc |-> e]

\* except Exception as exc: raise under _raise_on_exception, else Failed
OnException(s, e, roe) ==
    IF roe
    THEN [pc |-> "raised", state |-> s, exc |-> e]
    ELSE [pc |-> "returned", state |-> FlowState("Failed", e, NoResult), exc |-> e]

\* one decorated transition: handlers, then on to nextpc, or out of run by
\* ENDRUN or by `return state` (nextpc = "returned"); leaving run pops the
\* run context
FlowTransition(r, nextpc) ==
    LET h == call_state_handlers(cfg.handlers, state, r)
    IN  /\ handlerLog' = handlerLog \o LoggedCalls(cfg.handlers, state, r)
        /\ IF h.end
           THEN /\ state' = OnEndrun(h.state)
                /\ pc' = "returned"
                /\ PopContext
                /\ left' = [how |-> "endrun", at |-> pc, carried |-> h.state]
           ELSE /\ state' = h.state
                /\ pc' = nextpc
                /\ IF nextpc = "returned" THEN PopContext ELSE UNCHANGED ctx
                /\ left' = IF nextpc = "returned"
                           THEN [how |-> "return", at |-> pc, carried |-> h.state]
                           ELSE left

\* an exception leaves the try block
Raise(e) ==
    LET o == OnException(state, e, cfg.roe)
    IN  /\ pc' = o.pc
        /\ state' = o.state
        /\ exc' = o.exc
        /\ PopContext
        /\ left' = [how |-> "exception", at |-> pc, carried |-> state]

(***************************************************************************)
(* The flow-level transitions                                              *)
(***************************************************************************)
check_flow_is_pending_or_running(s) ==
    IF is_finished(s.type) THEN Outcome(TRUE, s, FALSE)
    ELSE IF ~(is_pending(s.type) \/ is_running(s.type)) THEN Outcome(TRUE, s, FALSE)
    ELSE Outcome(FALSE, s, FALSE)

set_flow_to_running(s) ==
    IF is_pending(s.type) THEN Outcome(FALSE, FlowState("Running", "Running flow.", NoResult), TRUE)
    ELSE IF is_running(s.type) THEN Outcome(FALSE, s, FALSE)
    ELSE Outcome(TRUE, s, FALSE)

CheckFlow ==
    /\ pc = "check"
    /\ FlowTransition(check_flow_is_pending_or_running(state), "set_running")
    /\ UNCHANGED <<cfg, run, start0, exc, executorStarted, taskStates, queues,
                   dispatchOrder, disp, phase, held, result, final, waits>>

SetRunning ==
    /\ pc = "set_running"
    /\ FlowTransition(set_flow_to_running(state), "get_state")
    /\ UNCHANGED <<cfg, run, start0, exc, executorStarted, taskStates, queues,
                   dispatchOrder, disp, phase, held, result, final, waits>>

(***************************************************************************)
(* get_flow_run_state: entry, executor.start() and the tag queues          *)
(***************************************************************************)
\* a variant that lets every state into the dispatch loop
NotRunning_never(s) == FALSE

\* if not state.is_running(): raise ENDRUN(state)
NotRunning(s) == ~is_running(s.type)

\* a variant that puts one ticket too many: range(size + 1)
QueueTickets_oneMore(size) == size + 1

\* a variant that leaves the queue empty
QueueTickets_none(size) == 0

\* for i in range(size): q.put(i)  -- the number of tickets put in a queue
QueueTickets(size) == size

\* queues = {tag: a queue of `size` tickets}
BuildQueues(th) == [tag \in DOMAIN th |-> QueueTickets(th[tag])]

StartRun ==
    /\ pc = "get_state"
    /\ IF NotRunning(state)
       THEN /\ FlowTransition(Outcome(TRUE, state, FALSE), "returned")
            /\ UNCHANGED <<executorStarted, taskStates, queues>>
       ELSE /\ taskStates' = cfg.supplied
            /\ executorStarted' = TRUE
            /\ queues' = BuildQueues(EffectiveThrottle(cfg))
            /\ pc' = "loop"
            /\ UNCHANGED <<state, handlerLog, ctx, left>>
    /\ UNCHANGED <<cfg, run, start0, exc, dispatchOrder, disp, phase, held, result,
                   final, waits>>


(***************************************************************************)
(* get_flow_run_state: the dispatch loop                                   *)
(***************************************************************************)
\* the tags in ascending (string) order
TagOrder == <<"api", "db">>

\* sorted(task.tags)
sorted(tagseq) == SelectSeq(TagOrder, LAMBDA tag : tag \in Range(tagseq))

\* a variant that walks task.tags as declared, without sorted()
task_queues_unsorted(f, t, qs) == SelectSeq(tags(f, t), LAMBDA tag : tag \in DOMAIN qs)

\* [queues.get(tag) for tag in sorted(task.tags) if queues.get(tag)]:
\* the task's queues, each named by its tag
task_queues(f, t, qs) == SelectSeq(sorted(tags(f, t)), LAMBDA tag : tag \in DOMAIN qs)

\* a variant that stores the default state whether or not the key is there
ReadDefault_overwrite(ts, S) ==
    [t \in DOMAIN ts |-> IF t \in S THEN Value(DefaultState) ELSE ts[t]]

\* task_states[edge.upstream_task] on the defaultdict: a missing key is
\* inserted with the default Failed state
ReadDefault(ts, S) ==
    [t \in DOMAIN ts |-> IF t \in S /\ ts[t].kind = "absent" THEN Value(DefaultState) ELSE ts[t]]

\* a variant that reads the caller's task_states, not the working mapping
UpstreamStates_supplied(ts, f, t) ==
    [u \in upstream_tasks(f, t) |-> ReadDefault(cfg.supplied, upstream_tasks(f, t))[u]]

\* upstream_states[edge] = task_states[edge.upstream_task]
UpstreamStates(ts, f, t) == [u \in upstream_tasks(f, t) |-> ReadDefault(ts, upstream_tasks(f, t))[u]]

\* task in start_tasks and task in task_states
Harvests(c, ts, t) == t \in c.start /\ ts[t].kind # "absent"

\* a variant in which the assertion never fails
HarvestFails_never(c, ts, t) == FALSE

\* assert isinstance(passed_state, Pending) fails
HarvestFails(c, ts, t) == Harvests(c, ts, t) /\ ~ts[t].val.list /\ ~is_pending(ts[t].val.st[1])

\* task_inputs.update(passed_state.cached_inputs) with cached_inputs None
HarvestNone(c, ts, t) ==
    /\ Harvests(c, ts, t)
    /\ ~ts[t].val.list
    /\ is_pending(ts[t].val.st[1])
    /\ ts[t].val.cached_inputs = "None"

\* the exception of the harvest of lines 307-311 ("" = none)
HarvestError(c, ts, t) ==
    IF HarvestFails(c, ts, t) THEN "AssertionError"
    ELSE IF HarvestNone(c, ts, t) THEN "TypeError"
    ELSE ""

\* a variant that waits on every upstream state, before a map as well
UpstreamMapped_all(f, t) == upstream_tasks(f, t)

\* the upstream states executor.wait is called on before a submit
UpstreamMapped(f, t) == IF mapped(f, t) THEN {} ELSE {u \in upstream_tasks(f, t) : mapped(f, u)}

\* a variant that never sets the flag
IgnoreTrigger_never(c, t) == FALSE

\* ignore_trigger=(task in start_tasks)
IgnoreTrigger(c, t) == t \in c.start

\* the tasks of sorted_tasks(root_tasks=start_tasks) that may come next in
\* a topological order
NextInOrder(t) ==
    /\ t \in sorted_set(flow, cfg.start)
    /\ ~disp[t].done
    /\ \A u \in upstream_tasks(flow, t) \cap sorted_set(flow, cfg.start) : disp[u].done

\* the arguments of the submit / map call of task t, given the upstream
\* states read for it
Arguments(t, up) ==
    [done |-> TRUE,
     kind |-> IF mapped(flow, t) THEN "map" ELSE "submit",
     up |-> [u \in DOMAIN up |->
               IF u \in UpstreamMapped(flow, t) /\ up[u].kind = "future"
               THEN [kind |-> "waited", val |-> result[u]]
               ELSE up[u]],
     state |-> taskStates[t],
     inputs |-> Harvests(cfg, taskStates, t) /\ ~taskStates[t].val.list,
     ignore |-> IgnoreTrigger(cfg, t),
     queues |-> task_queues(flow, t, queues),
     flowState |-> state.type]

\* task_states[task] = executor.submit(...) / executor.map(...)
Submit(t, ts, up) ==
    /\ taskStates' = [ts EXCEPT ![t] = Future]
    /\ dispatchOrder' = Append(dispatchOrder, t)
    /\ disp' = [disp EXCEPT ![t] = Arguments(t, up)]
    /\ phase' = [phase EXCEPT ![t] = "queued"]

\* one pass of the loop body for the next task: the upstream states are
\* read, the supplied state of a start task is harvested, and the task is
\* handed to the executor -- unless the harvest raises, or the task is not
\* mapped and has mapped upstream tasks, in which case the loop calls
\* executor.wait on them and goes on in SubmitAfterWait
Dispatch(t) ==
    /\ pc = "loop"
    /\ NextInOrder(t)
    /\ LET ts1 == ReadDefault(taskStates, upstream_tasks(flow, t))
           up == UpstreamStates(taskStates, flow, t)
           waited == UpstreamMapped(flow, t)
           err == HarvestError(cfg, ts1, t)
       IN  IF err # ""
           THEN /\ Raise(err)
                /\ taskStates' = ts1
                /\ disp' = [disp EXCEPT ![t] = [NoDispatch EXCEPT !.kind = "raised", !.up = up]]
                /\ UNCHANGED <<dispatchOrder, phase, waits>>
           ELSE IF waited # {}
           THEN /\ pc' = "wait"
                /\ taskStates' = ts1
                /\ disp' = [disp EXCEPT ![t] = [NoDispatch EXCEPT !.kind = "wait", !.up = up]]
                /\ waits' = Append(waits, [at |-> t, on |-> waited])
                /\ UNCHANGED <<state, exc, ctx, left, dispatchOrder, phase>>
           ELSE /\ Submit(t, ts1, up)
                /\ UNCHANGED <<pc, state, exc, ctx, left, waits>>
    /\ UNCHANGED <<cfg, run, start0, executorStarted, handlerLog, queues, held, result, final>>

\* executor.wait returns once the mapped upstream units have ended, and the
\* task is submitted
SubmitAfterWait(t) ==
    /\ pc = "wait"
    /\ disp[t].kind = "wait"
    /\ \A u \in UpstreamMapped(flow, t) : disp[t].up[u].kind = "future" => phase[u] = "done"
    /\ Submit(t, taskStates, disp[t].up)
    /\ pc' = "loop"
    /\ UNCHANGED <<cfg, run, start0, state, exc, ctx, executorStarted, handlerLog, queues, held,
                   result, final, waits, left>>

\* the executor is started: the units run while run is in the loop or in a
\* call of executor.wait
ExecutorRunning == pc \in {"loop", "wait", "final_wait"}

(***************************************************************************)
(* A dispatched unit: TaskRunner.run (spec sections 4.2 and 4.3).  It      *)
(* starts once the futures among its arguments are resolved, takes one     *)
(* ticket from each of its queues in the order given, runs the pipeline    *)
(* and puts every ticket back when it ends.                                *)
(***************************************************************************)
UpstreamResolved(t) ==
    \A u \in DOMAIN disp[t].up : disp[t].up[u].kind = "future" => phase[u] = "done"

UpVal(t, u) == IF disp[t].up[u].kind = "future" THEN result[u] ELSE disp[t].up[u].val

\* the flattened upstream states the pipeline looks at
UpKinds(t) == UNION {flatten_seq(UpVal(t, u)) : u \in DOMAIN disp[t].up}

HeldTags(t) == {disp[t].queues[i] : i \in 1..held[t]}

\* q.put(ticket) for every ticket the unit holds
Release(t) == [tag \in DOMAIN queues |-> queues[tag] + (IF tag \in HeldTags(t) THEN 1 ELSE 0)]

AcquireTicket(t) ==
    /\ ExecutorRunning
    /\ phase[t] = "queued"
    /\ UpstreamResolved(t)
    /\ held[t] < Len(disp[t].queues)
    /\ queues[disp[t].queues[held[t] + 1]] > 0
    /\ queues' = [queues EXCEPT ![disp[t].queues[held[t] + 1]] = @ - 1]
    /\ held' = [held EXCEPT ![t] = @ + 1]
    /\ UNCHANGED <<cfg, run, start0, pc, state, exc, ctx, executorStarted, handlerLog,
                   taskStates, dispatchOrder, disp, phase, result, final, waits, left>>

\* the state the unit starts from: the one passed, else Pending
CurrentState(t) == IF disp[t].state.kind = "absent" THEN Scalar("Pending") ELSE disp[t].state.val

\* the pipeline up to set_task_to_running: the states it may end in before
\* user code runs (ENDRUN), and whether it may go on to run the task
EarlyExits(t) ==
    LET cur == CurrentState(t)
        k == cur.st[1]
        ups == UpKinds(t)
    IN  IF is_finished(k) THEN {cur}
        ELSE (IF k \in {"Retrying", "Scheduled"} THEN {cur} ELSE {})
             \cup (IF ~disp[t].ignore /\ \E s \in ups : ~is_finished(s) THEN {Scalar("Pending")}
                   ELSE IF \E s \in ups : is_skipped(s) THEN {Scalar("Skipped")}
                   ELSE IF ~disp[t].ignore /\ \E s \in ups : ~is_successful(s)
                        THEN {Scalar("TriggerFailed")}
                   ELSE {})

MayRun(t) ==
    LET k == CurrentState(t).st[1]
        ups == UpKinds(t)
    IN  /\ ~is_finished(k)
        /\ disp[t].ignore \/ \A s \in ups : is_finished(s)
        /\ \A s \in ups : ~is_skipped(s)
        /\ disp[t].ignore \/ \A s \in ups : is_successful(s)

\* the states user code may leave a task in
UserOutcomes == {"Success", "Failed", "Skipped", "Retrying", "TimedOut"}

ChildOutcomes == {"Success", "Failed", "Retrying"}

MapOutcomes == UNION {[1..n -> ChildOutcomes] : n \in 1..MaxMap}

BeginTask(t) ==
    /\ ExecutorRunning
    /\ phase[t] = "queued"
    /\ UpstreamResolved(t)
    /\ held[t] = Len(disp[t].queues)
    /\ \/ /\ disp[t].kind = "map" \/ MayRun(t)
          /\ phase' = [phase EXCEPT ![t] = "running"]
          /\ UNCHANGED <<result, queues, held>>
       \/ /\ disp[t].kind = "submit"
          /\ \E v \in EarlyExits(t) :
                /\ result' = [result EXCEPT ![t] = v]
                /\ phase' = [phase EXCEPT ![t] = "done"]
                /\ queues' = Release(t)
                /\ held' = [held EXCEPT ![t] = 0]
    /\ UNCHANGED <<cfg, run, start0, pc, state, exc, ctx, executorStarted, handlerLog,
                   taskStates, dispatchOrder, disp, final, waits, left>>

FinishTask(t) ==
    /\ ExecutorRunning
    /\ phase[t] = "running"
    /\ \E v \in (IF disp[t].kind = "map" THEN {Mapped(ks) : ks \in MapOutcomes}
                 ELSE {Scalar(k) : k \in UserOutcomes}) :
          result' = [result EXCEPT ![t] = v]
    /\ phase' = [phase EXCEPT ![t] = "done"]
    /\ queues' = Release(t)
    /\ held' = [held EXCEPT ![t] = 0]
    /\ UNCHANGED <<cfg, run, start0, pc, state, exc, ctx, executorStarted, handlerLog,
                   taskStates, dispatchOrder, disp, final, waits, left>>

(***************************************************************************)
(* get_flow_run_state: aggregation                                         *)
(***************************************************************************)
\* a variant that looks for a failed reference state first
Classify_failedFirst(terminal_states, key_states, return_states) ==
    IF \E s \in key_states : is_failed(s)
    THEN FlowState("Failed", "Some reference tasks failed.", Result(return_states))
    ELSE IF ~(\A s \in terminal_states : is_finished(s))
    THEN FlowState("Pending", "Some terminal tasks are still pending.", Result(return_states))
    ELSE IF \A s \in key_states : is_successful(s)
    THEN FlowState("Success", "All reference tasks succeeded.", Result(return_states))
    ELSE FlowState("Success", "No reference tasks failed.", Result(return_states))

\* a variant whose first test is `not any(...)` instead of `not all(...)`
Classify_anyFinished(terminal_states, key_states, return_states) ==
    IF ~(\E s \in terminal_states : is_finished(s))
    THEN FlowState("Pending", "Some terminal tasks are still pending.", Result(return_states))
    ELSE IF \E s \in key_states : is_failed(s)
    THEN FlowState("Failed", "Some reference tasks failed.", Result(return_states))
    ELSE IF \A s \in key_states : is_successful(s)
    THEN FlowState("Success", "All reference tasks succeeded.", Result(return_states))
    ELSE FlowState("Success", "No reference tasks failed.", Result(return_states))

\* a variant that takes every reference state other than Success for failed
Classify_strictSuccess(terminal_states, key_states, return_states) ==
    IF ~(\A s \in terminal_states : is_finished(s))
    THEN FlowState("Pending", "Some terminal tasks are still pending.", Result(return_states))
    ELSE IF \E s \in key_states : s # "Success"
    THEN FlowState("Failed", "Some reference tasks failed.", Result(return_states))
    ELSE FlowState("Success", "All reference tasks succeeded.", Result(return_states))

\* the classification of the flattened final states
Classify(terminal_states, key_states, return_states) ==
    IF ~(\A s \in terminal_states : is_finished(s))
    THEN FlowState("Pending", "Some terminal tasks are still pending.", Result(return_states))
    ELSE IF \E s \in key_states : is_failed(s)
    THEN FlowState("Failed", "Some reference tasks failed.", Result(return_states))
    ELSE IF \A s \in key_states : is_successful(s)
    THEN FlowState("Success", "All reference tasks succeeded.", Result(return_states))
    ELSE FlowState("Success", "No reference tasks failed.", Result(return_states))

\* the keys of final_states: every key of task_states under return_failed,
\* else the terminal, reference and return tasks
FinalKeys(c, ts) ==
    IF c.retFailed THEN {t \in DOMAIN ts : ts[t].kind # "absent"}
    ELSE terminal_tasks(c.flow) \cup c.ref \cup c.ret

\* failed_tasks: isinstance(state, (Failed, Retrying))
FailedTasks(fs) == {t \in DOMAIN fs : ~fs[t].list /\ IsFailedOrRetrying(fs[t].st[1])}

\* a variant that adds the failed tasks whether or not return_failed is set
ReturnTasks_always(c, fs) == c.ret \cup FailedTasks(fs)

\* return_tasks after return_tasks.update(failed_tasks)
ReturnTasks(c, fs) == IF c.retFailed THEN c.ret \cup FailedTasks(fs) ELSE c.ret

\* final_states[t] is read for the terminal tasks (line 376), then the
\* reference tasks (378), then the return tasks (379), each in the order
\* of iteration of a set; the first key that is missing raises KeyError.
\* The sets of keys that may have been read when the reading ends
ReadSets(keys, term, ref, rt) ==
    IF ~(term \subseteq keys) THEN SUBSET (term \cap keys)
    ELSE IF ~(ref \subseteq keys) THEN {term \cup R : R \in SUBSET (ref \cap keys)}
    ELSE IF ~(rt \subseteq keys) THEN {term \cup ref \cup R : R \in SUBSET (rt \cap keys)}
    ELSE {term \cup ref \cup rt}

\* lines 352-373: the states to wait for are taken from task_states (under
\* return_failed a plain copy of it, else a read of the defaultdict for
\* each terminal, reference and return task) and executor.wait is called
Aggregate ==
    /\ pc = "loop"
    /\ \A t \in sorted_set(flow, cfg.start) : disp[t].done
    /\ LET keys == FinalKeys(cfg, taskStates)
       IN  /\ taskStates' = IF cfg.retFailed THEN taskStates ELSE ReadDefault(taskStates, keys)
           /\ waits' = Append(waits, [at |-> "final", on |-> keys])
    /\ pc' = "final_wait"
    /\ UNCHANGED <<cfg, run, start0, state, exc, ctx, executorStarted, handlerLog, queues,
                   dispatchOrder, disp, phase, held, result, final, left>>

\* lines 375-410: executor.wait has returned; the final states are read,
\* classified, and the state is returned
Collect ==
    /\ pc = "final_wait"
    /\ LET keys == waits[Len(waits)].on
       IN  /\ \A t \in keys : taskStates[t].kind = "future" => phase[t] = "done"
           /\ LET fs == [t \in keys |->
                           IF taskStates[t].kind = "future" THEN result[t] ELSE taskStates[t].val]
                  rt == ReturnTasks(cfg, fs)
                  term == terminal_tasks(flow)
              IN  IF ~((term \cup cfg.ref \cup rt) \subseteq keys)
                  THEN /\ Raise("KeyError")
                       /\ \E R \in ReadSets(keys, term, cfg.ref, rt) :
                             final' = [NoFinal EXCEPT !.read = R]
                       /\ UNCHANGED handlerLog
                  ELSE LET c == Classify(UNION {flatten_seq(fs[t]) : t \in term},
                                         UNION {flatten_seq(fs[t]) : t \in cfg.ref},
                                         [t \in rt |-> fs[t]])
                       IN  /\ final' = [done |-> TRUE, states |-> fs, ret |-> rt,
                                        read |-> term \cup cfg.ref \cup rt, classified |-> c]
                           /\ FlowTransition(Outcome(FALSE, c, TRUE), "returned")
                           /\ UNCHANGED exc
    /\ UNCHANGED <<cfg, run, start0, executorStarted, taskStates, queues, dispatchOrder, disp,
                   phase, held, result, waits>>

(***************************************************************************)
(* run is called again with the finished state the previous call returned  *)
(***************************************************************************)
Rerun ==
    /\ pc = "returned"
    /\ run < MaxRuns
    /\ is_finished(state.type)
    /\ cfg' = cfg
    /\ run' = run + 1
    /\ start0' = state
    /\ pc' = "start"
    /\ state' = state
    /\ exc' = ""
    /\ UNCHANGED ctx
    /\ executorStarted' = FALSE
    /\ handlerLog' = <<>>
    /\ taskStates' = [t \in tasks(flow) |-> Absent]
    /\ queues' = NoThrottle
    /\ dispatchOrder' = <<>>
    /\ disp' = [t \in tasks(flow) |-> NoDispatch]
    /\ phase' = [t \in tasks(flow) |-> "none"]
    /\ held' = [t \in tasks(flow) |-> 0]
    /\ result' = [t \in tasks(flow) |-> NoState]
    /\ final' = NoFinal
    /\ waits' = <<>>
    /\ left' = NotLeft

\* one call of run, with the units it dispatches
RunOnce ==
    \/ Preflight
    \/ CheckFlow
    \/ SetRunning
    \/ StartRun
    \/ \E t \in tasks(flow) : Dispatch(t)
    \/ \E t \in tasks(flow) : SubmitAfterWait(t)
    \/ \E t \in tasks(flow) : AcquireTicket(t)
    \/ \E t \in tasks(flow) : BeginTask(t)
    \/ \E t \in tasks(flow) : FinishTask(t)
    \/ Aggregate
    \/ Collect

Next == RunOnce \/ Rerun

Spec == Init /\ [][Next]_vars

\* one throttled run; the executor runs every unit it was given and run
\* itself goes on (weak fairness)
ThrottleSpec == InitThrottle /\ [][RunOnce]_vars /\ WF_vars(RunOnce)


(***************************************************************************)
(* Properties                                                              *)
(***************************************************************************)
\* the place of a dispatched task in the order of dispatch
Pos(t) == CHOOSE i \in 1..Len(dispatchOrder) : dispatchOrder[i] = t

\* the tasks start_tasks reach along the edges (every task of a flow whose
\* tasks all descend from its roots, when start_tasks is omitted)
Reached == IF cfg.start = {} THEN Reach(flow, root_tasks(flow)) ELSE Reach(flow, cfg.start)

\* the flattened final states of a set of tasks
FinalOf(S) == UNION {flatten_seq(final.states[t]) : t \in S}

\* C1 as claimed: for every edge u -> v, whenever v has been dispatched, u
\* was dispatched earlier in the same run and v was handed the future of
\* u's dispatch -- for every choice of start_tasks and task_states.
C1_DispatchAfterEveryUpstream ==
    \A e \in edges(flow) :
        disp[e[2]].done =>
            /\ disp[e[1]].done
            /\ Pos(e[1]) < Pos(e[2])
            /\ disp[e[2]].up[e[1]].kind \in {"future", "waited"}

\* C1 amended: for every edge u -> v with v dispatched: if start_tasks
\* reach u, then u was dispatched earlier in the run and v was handed u's
\* future (or, for a mapped u and a submitted v, the state that future
\* resolved to); if start_tasks do not reach u, then u is not dispatched at
\* all and v was handed the caller's task_states[u], or the default Failed
\* state when the caller gave none.
C1_TopologicalDispatch ==
    \A e \in edges(flow) :
        LET u == e[1]
            v == e[2]
        IN  disp[v].done =>
                IF u \in Reached
                THEN /\ disp[u].done
                     /\ Pos(u) < Pos(v)
                     /\ disp[v].up[u].kind \in {"future", "waited"}
                     /\ disp[v].up[u].kind = "waited" => disp[v].up[u].val = result[u]
                     /\ disp[v].up[u].kind = "waited" <=> (mapped(flow, u) /\ ~mapped(flow, v))
                ELSE /\ ~disp[u].done
                     /\ disp[v].up[u] = IF cfg.supplied[u].kind = "absent"
                                        THEN Value(DefaultState)
                                        ELSE cfg.supplied[u]

\* C1 witness: start_tasks are given; one edge has both ends dispatched and
\* its future handed down, another has a dispatched downstream end whose
\* upstream end start_tasks do not reach.
C1_Witness ==
    /\ cfg.start # {}
    /\ \E e \in edges(flow) :
          disp[e[1]].done /\ disp[e[2]].done /\ disp[e[2]].up[e[1]].kind = "future"
    /\ \E e \in edges(flow) : disp[e[2]].done /\ e[1] \notin Reached

\* C2: when aggregation classifies, the state is Pending iff some flattened
\* terminal state is not finished; otherwise Failed iff some flattened
\* reference state is failed; otherwise Success; its result is the mapping
\* of the return tasks to their final states; and with no substituting
\* handler that state is what run returns.
C2_Classification ==
    final.done =>
        LET c == final.classified
            unfinished == \E s \in FinalOf(terminal_tasks(flow)) : ~is_finished(s)
            failed == \E s \in FinalOf(cfg.ref) : is_failed(s)
        IN  /\ c.type = "Pending" <=> unfinished
            /\ c.type = "Failed" <=> (~unfinished /\ failed)
            /\ c.type = "Success" <=> (~unfinished /\ ~failed)
            /\ c.result = Result([t \in final.ret |-> final.states[t]])
            /\ (\A i \in 1..Len(cfg.handlers) : cfg.handlers[i] = "id")
                  => (pc = "returned" /\ state = c)

\* C2 witness: a run classified Pending although a reference state is
\* failed -- the order of the tests decides.
C2_Witness ==
    /\ final.done
    /\ pc = "returned"
    /\ state.type = "Pending"
    /\ \E s \in FinalOf(cfg.ref) : is_failed(s)

\* C3 as claimed: whenever run returns a Success or Failed state made by
\* aggregation, every task in its result mapping has only finished states.
C3_EveryResultFinished ==
    (pc = "returned" /\ final.done /\ state.type \in {"Success", "Failed"} /\ state.result.has) =>
        \A t \in DOMAIN state.result.map :
            \A s \in flatten_seq(state.result.map[t]) : is_finished(s)

\* C3 amended: whenever aggregation classifies the flow Success or Failed,
\* every terminal task has only finished states, in particular every
\* terminal task of the result mapping; a task of the mapping that is not
\* terminal (a return task, or one added by return_failed, which adds
\* Retrying tasks) may be unfinished.
C3_StateClosure ==
    (final.done /\ final.classified.type \in {"Success", "Failed"}) =>
        /\ \A s \in FinalOf(terminal_tasks(flow)) : is_finished(s)
        /\ \A t \in DOMAIN final.classified.result.map \cap terminal_tasks(flow) :
              \A s \in flatten_seq(final.classified.result.map[t]) : is_finished(s)

\* C3 witness: a run classified Success whose result mapping holds a
\* finished terminal task and an unfinished task added by return_failed.
C3_Witness ==
    /\ final.done
    /\ final.classified.type = "Success"
    /\ cfg.retFailed
    /\ \E t \in DOMAIN final.classified.result.map \cap terminal_tasks(flow) :
          \A s \in flatten_seq(final.classified.result.map[t]) : is_finished(s)
    /\ \E t \in DOMAIN final.classified.result.map \ cfg.ret :
          \E s \in flatten_seq(final.classified.result.map[t]) : ~is_finished(s)


\* the throttle map in force: the argument of run, else the flow's
Throttle == IF DOMAIN cfg.throttle # {} THEN cfg.throttle ELSE cfg.flowThrottle

\* the tasks carrying a tag
Tagged(tag) == {t \in tasks(flow) : tag \in Range(tags(flow, t))}

\* the units holding a ticket of a tag's queue
Holders(tag) == {t \in tasks(flow) : tag \in HeldTags(t)}

\* a unit waiting for a ticket of a queue that is empty
Blocked(t) ==
    /\ phase[t] = "queued"
    /\ UpstreamResolved(t)
    /\ held[t] < Len(disp[t].queues)
    /\ queues[disp[t].queues[held[t] + 1]] = 0

NextTag(t) == disp[t].queues[held[t] + 1]

\* C4: once the executor is started, for every tag of the throttle map
\* with budget B at most B tasks carrying the tag are running (and at most
\* B units hold one of its tickets); before the first dispatch every queue
\* holds exactly its budget of tickets; and every dispatched task was
\* given the queues of exactly those of its tags that the map throttles.
C4_ThrottleCorrectness ==
    executorStarted =>
        /\ \A tag \in DOMAIN Throttle :
              /\ Cardinality({t \in Tagged(tag) : phase[t] = "running"}) <= Throttle[tag]
              /\ Cardinality(Holders(tag)) <= Throttle[tag]
        /\ (ExecutorRunning /\ dispatchOrder = <<>>) =>
              (DOMAIN queues = DOMAIN Throttle /\ \A tag \in DOMAIN Throttle : queues[tag] = Throttle[tag])
        /\ \A t \in tasks(flow) :
              disp[t].done => Range(disp[t].queues) = Range(tags(flow, t)) \cap DOMAIN Throttle

\* C4 witness: a tag's budget is used up by running tasks while another
\* task carrying the tag waits for a ticket.
C4_Witness ==
    /\ pc = "loop"
    /\ \E tag \in DOMAIN Throttle :
          /\ Cardinality({t \in Tagged(tag) : phase[t] = "running"}) = Throttle[tag]
          /\ \E t \in Tagged(tag) : Blocked(t) /\ NextTag(t) = tag

\* C5: no set of units is ever such that each holds a ticket and each
\* waits for a ticket of a queue all of whose tickets are held inside the
\* set; and while run is in the executor and some unit has not ended, some
\* unit can take a step.
C5_NoDeadlock ==
    /\ ~ \E S \in SUBSET tasks(flow) :
            /\ S # {}
            /\ \A t \in S : Blocked(t) /\ held[t] > 0 /\ Holders(NextTag(t)) \subseteq S
    /\ (ExecutorRunning /\ \E t \in tasks(flow) : phase[t] \in {"queued", "running"}) =>
          \E t \in tasks(flow) :
              \/ phase[t] = "running"
              \/ phase[t] = "queued" /\ UpstreamResolved(t) /\ ~Blocked(t)

\* C5 witness: a unit holds a ticket of one of its tags and waits for a
\* ticket of another, which a unit sharing both tags holds.
C5_Witness ==
    \E t \in tasks(flow) :
        /\ Blocked(t)
        /\ held[t] > 0
        /\ \E o \in Holders(NextTag(t)) \ {t} : HeldTags(t) \subseteq Range(tags(flow, o))

\* tickets in a queue plus tickets held make the budget
Conservation ==
    executorStarted =>
        \A tag \in DOMAIN Throttle : queues[tag] + Cardinality(Holders(tag)) = Throttle[tag]

\* C6 as claimed: every dispatched task reaches a finished state -- so a
\* unit that has ended has ended in a finished state.
C6_EveryTaskFinished ==
    \A t \in tasks(flow) : phase[t] = "done" => is_finished(result[t].st[1])

\* C6 amended: at all times tickets in a queue plus tickets held equal the
\* budget; under fair scheduling every dispatched unit ends with all its
\* tickets returned, and every unit blocked on a ticket comes to hold all
\* its tickets; the state a unit ends in is finished or, when the task is
\* left for a later run, of the Pending family (Retrying when retries
\* remain).
C6_ThrottleLiveness ==
    /\ [](Conservation)
    /\ [](\A t \in {"A", "B", "C"} :
            phase[t] = "done" =>
                /\ held[t] = 0
                /\ is_finished(result[t].st[1]) \/ is_pending(result[t].st[1]))
    /\ \A t \in {"A", "B", "C"} :
          /\ (phase[t] = "queued") ~> (phase[t] = "done" /\ held[t] = 0)
          /\ Blocked(t) ~> (phase[t] \in {"queued", "running"} /\ held[t] = Len(disp[t].queues))

\* C6 witness: three tasks carry a tag of budget 2; all have ended, one of
\* them Retrying, and the queue holds its two tickets again.
C6_Witness ==
    /\ pc = "returned"
    /\ \E tag \in DOMAIN queues :
          /\ Throttle[tag] = 2
          /\ Cardinality(Tagged(tag)) = 3
          /\ queues[tag] = 2
    /\ \A t \in tasks(flow) : phase[t] = "done"
    /\ \E t \in tasks(flow) : result[t].st[1] = "Retrying"


\* a call whose throttle map in force has a value <= 0, or whose
\* return_tasks name a task that is not in the flow
InvalidCall ==
    \/ \E tag \in DOMAIN Throttle : Throttle[tag] <= 0
    \/ \E t \in cfg.ret : t \notin tasks(flow)

\* a starting flow state run does not run from: finished, or neither
\* pending nor running
NonRunnable(s) == is_finished(s.type) \/ ~(is_pending(s.type) \/ is_running(s.type))

\* C7: when the throttle map in force holds a value <= 0 or return_tasks
\* holds a task that is not in the flow, run raises ValueError: the run
\* context is never pushed, no state handler is called, the executor is
\* not started, no task is dispatched and no flow state is returned.
C7_PreflightErrors ==
    InvalidCall =>
        /\ pc \in {"start", "raised"}
        /\ pc = "raised" => exc = "ValueError"
        /\ ~ctxPushed
        /\ handlerLog = <<>>
        /\ ~executorStarted
        /\ dispatchOrder = <<>>
        /\ left = NotLeft

\* C7 witness: the call gives no throttle map, the flow's own map has a
\* budget of 0 and return_tasks are in the flow; run has raised ValueError.
C7_Witness ==
    /\ pc = "raised"
    /\ exc = "ValueError"
    /\ DOMAIN cfg.throttle = {}
    /\ \E tag \in DOMAIN cfg.flowThrottle : cfg.flowThrottle[tag] = 0
    /\ cfg.ret \subseteq tasks(flow)

\* C8: once pre-flight validation has passed, run raises only under
\* _raise_on_exception; without it an exception raised in the try block
\* (AssertionError in the dispatch loop, KeyError in aggregation) is
\* returned as a Failed state whose message is the exception and that has
\* no result; under it the exception is re-raised; an ENDRUN is always
\* returned as the state it carries.
C8_ExceptionContainment ==
    /\ (pc = "raised" /\ exc # "ValueError") => cfg.roe
    /\ left.how = "exception" =>
          /\ exc \in {"AssertionError", "TypeError", "KeyError"}
          /\ ~ctxPushed
          /\ IF cfg.roe THEN pc = "raised"
             ELSE pc = "returned" /\ state = FlowState("Failed", exc, NoResult)
    /\ left.how = "endrun" => (pc = "returned" /\ state = left.carried /\ exc = "")

\* C8 witness: aggregation raised KeyError after the dispatch loop and run
\* returned Failed with that message.
C8_Witness ==
    /\ left.how = "exception"
    /\ left.at = "final_wait"
    /\ exc = "KeyError"
    /\ pc = "returned"
    /\ state.type = "Failed"
    /\ state.message = "KeyError"
    /\ dispatchOrder # <<>>
    /\ \A t \in Range(dispatchOrder) : phase[t] = "done"

\* C9 as claimed: a call with a non-runnable starting state that has ended
\* has returned exactly that state -- whatever its other arguments.
C9_AlwaysReturnsStartingState ==
    (NonRunnable(start0) /\ pc \in {"returned", "raised"}) => (pc = "returned" /\ state = start0)

\* C9 amended: when run is called with a starting state that is finished,
\* or neither pending nor running, and pre-flight validation passes, it
\* returns exactly that state, whatever the handlers and
\* _raise_on_exception; the executor is never started, no task is
\* dispatched and no handler is called; with invalid throttle or
\* return_tasks it raises ValueError instead.  A second call on the state a
\* call returned (a finished one) returns that state again.
C9_FailFast ==
    /\ NonRunnable(start0) =>
          /\ ~executorStarted
          /\ dispatchOrder = <<>>
          /\ handlerLog = <<>>
          /\ state = start0
          /\ IF InvalidCall
             THEN pc \in {"start", "raised"} /\ (pc = "raised" => exc = "ValueError")
             ELSE pc \in {"start", "check", "returned"}
          /\ pc = "returned" => (left.how = "endrun" /\ left.at = "check")
    /\ run > 1 => (is_finished(start0.type) /\ (pc = "returned" => state = start0))

\* C9 witness: the second call, on the finished state with a task result
\* that the first call built, has returned that state.
C9_Witness ==
    /\ run = 2
    /\ pc = "returned"
    /\ state = start0
    /\ state.result.has
    /\ state.type = "Success"
    /\ cfg.handlers # <<>>

\* C10: whenever run is in the dispatch loop the executor is started and
\* the flow state is Running -- the state "Running flow." made from a
\* pending starting state when no handler substitutes another, the
\* starting state itself when that was Running; every task was dispatched
\* under a Running flow state; when the state reaching get_flow_run_state
\* is not Running the run returns that state, with the executor not
\* started and nothing dispatched; and the state aggregation makes is one
\* of Success, Failed and Pending.
C10_LifecycleOrdering ==
    /\ executorStarted =>
          /\ ExecutorRunning => state.type = "Running"
          /\ is_running(start0.type) => (ExecutorRunning => state = start0)
          /\ (is_pending(start0.type) /\ ExecutorRunning) =>
                /\ Len(handlerLog) = Len(cfg.handlers)
                /\ handlerLog # <<>> => (handlerLog[1][2] = start0.type /\ handlerLog[1][3] = "Running")
                /\ (\A i \in 1..Len(cfg.handlers) : cfg.handlers[i] = "id")
                      => state = FlowState("Running", "Running flow.", NoResult)
    /\ ExecutorRunning => executorStarted
    /\ \A t \in tasks(flow) : disp[t].done => disp[t].flowState = "Running"
    /\ (left.how = "endrun" /\ left.at = "get_state") =>
          /\ pc = "returned"
          /\ state = left.carried
          /\ ~is_running(state.type)
          /\ ~executorStarted
          /\ dispatchOrder = <<>>
    /\ final.done =>
          /\ final.classified.type \in {"Success", "Failed", "Pending"}
          /\ (\A i \in 1..Len(cfg.handlers) : cfg.handlers[i] = "id") => state = final.classified

\* C10 witness: a run from a pending state, with state handlers, went to
\* Running, dispatched all three tasks and returned the state aggregation
\* made.
C10_Witness ==
    /\ is_pending(start0.type)
    /\ cfg.handlers = <<"id">>
    /\ Len(handlerLog) = 2
    /\ handlerLog[1] = <<"id", start0.type, "Running">>
    /\ Len(dispatchOrder) = 3
    /\ final.done
    /\ pc = "returned"
    /\ state = final.classified

\* the keys of the result mapping of a flow state (none when it has no
\* result)
ResultKeys(s) == IF s.result.has THEN DOMAIN s.result.map ELSE {}

\* C11 as claimed: every state run returns -- from aggregation, through
\* ENDRUN or from a caught exception -- has a result mapping with an entry
\* for every return task and, when return_failed is false, for no other.
C11_EveryReturnedStateHasResult ==
    pc = "returned" =>
        /\ cfg.ret \subseteq ResultKeys(state)
        /\ ~cfg.retFailed => ResultKeys(state) = cfg.ret

\* the flow state of a call that is in the loop: a Running starting state,
\* or what the handlers returned for the Running state made from a
\* pending one
StateInLoop ==
    IF is_running(start0.type) THEN start0
    ELSE call_runner_target_handlers(cfg.handlers, start0,
                                     FlowState("Running", "Running flow.", NoResult))

\* C11 amended: the state aggregation makes has a result mapping whose key
\* set is return_tasks when return_failed is false, and return_tasks plus
\* the failed tasks when it is true, each key mapped to the task's final
\* state; run returns what the flow's state handlers return for it: that
\* state itself, with that result, when there is no handler or each
\* returns the new state it is given, and else the state the last handler
\* returned, with whatever result that handler gave it.  A state returned
\* through ENDRUN is the carried state with the result it already had,
\* and the Failed state of a caught exception has no result mapping.
C11_ResultMapping ==
    /\ final.done =>
          /\ final.classified.result.has
          /\ ResultKeys(final.classified) =
                (IF cfg.retFailed THEN cfg.ret \cup FailedTasks(final.states) ELSE cfg.ret)
          /\ \A t \in ResultKeys(final.classified) :
                final.classified.result.map[t] = final.states[t]
          /\ pc = "returned"
          /\ state = call_runner_target_handlers(cfg.handlers, StateInLoop, final.classified)
          /\ (\A i \in 1..Len(cfg.handlers) : cfg.handlers[i] = "id") => state = final.classified
    /\ (pc = "returned" /\ left.how = "endrun") => state.result = left.carried.result
    /\ (pc = "returned" /\ left.how = "endrun" /\ left.at = "check") => state.result = start0.result
    /\ (pc = "returned" /\ left.how = "exception") => ~state.result.has

\* C11 witness: return_failed is false, the return task is not the only
\* task waited on, and the returned result has the return task as its one
\* key although another task failed.
C11_Witness ==
    /\ pc = "returned"
    /\ final.done
    /\ ~cfg.retFailed
    /\ cfg.ret = {"A"}
    /\ ResultKeys(state) = {"A"}
    /\ \E t \in DOMAIN final.states \ {"A"} : is_failed(final.states[t].st[1])

\* C12 as claimed: when a run with return_failed reaches aggregation, every
\* task that ended in a Failed-family or Retrying state is a key of the
\* returned result mapping, as is every return task; with return_failed
\* false the one wait of aggregation is on the terminal, reference and
\* return tasks.
C12_ReturnFailedAggregation ==
    (pc = "returned" /\ left.at = "final_wait") =>
        IF cfg.retFailed
        THEN /\ cfg.ret \subseteq ResultKeys(state)
             /\ \A t \in tasks(flow) :
                   (phase[t] = "done" /\ ~result[t].list /\ IsFailedOrRetrying(result[t].st[1]))
                      => t \in ResultKeys(state)
        ELSE waits[Len(waits)] = [at |-> "final", on |-> terminal_tasks(flow) \cup cfg.ref \cup cfg.ret]

\* the child states of a task's final state
Children(t) == Range(final.states[t].st)

\* every flattened terminal state is finished
TerminalsFinished ==
    \A t \in terminal_tasks(flow) : \A s \in Children(t) : is_finished(s)

\* C13: when aggregation has the list state of a mapped task t, every
\* child counts on its own: if t is terminal, one unfinished child makes
\* the flow Pending; with every terminal child state finished, one failed
\* child of a reference task t makes the flow Failed, and when no other
\* reference task has a failed state the flow is Failed if and only if t
\* is a reference task.
C13_FlattenCorrectness ==
    final.done =>
        \A t \in DOMAIN final.states :
            final.states[t].list =>
                /\ (t \in terminal_tasks(flow) /\ \E s \in Children(t) : ~is_finished(s))
                      => final.classified.type = "Pending"
                /\ (TerminalsFinished /\ \E s \in Children(t) : is_failed(s)) =>
                      /\ t \in cfg.ref => final.classified.type = "Failed"
                      /\ (\A u \in cfg.ref \ {t} : \A s \in Children(u) : ~is_failed(s))
                            => (final.classified.type = "Failed" <=> t \in cfg.ref)

\* C13 witness: the mapped terminal task B ended with the child states
\* [Success, Failed]; it is the one reference task and the flow is Failed.
C13_Witness ==
    /\ final.done
    /\ flow = "fanout"
    /\ cfg.ref = {"B"}
    /\ final.states["B"] = Mapped(<<"Success", "Failed">>)
    /\ final.states["C"] = Scalar("Success")
    /\ state.type = "Failed"

\* the Running state set_flow_to_running makes
RunningFlow == FlowState("Running", "Running flow.", NoResult)

\* the last change of the flow state a returned run made: the state
\* aggregation built, or the Failed state of a caught exception
LastChange ==
    IF final.done THEN final.classified ELSE FlowState("Failed", exc, NoResult)

\* the handler calls the claimed pass-through makes in a run that returned:
\* the chain once for Pending -> Running, then once for the last change
ClaimedCalls ==
    (IF left.at # "check" /\ is_pending(start0.type)
     THEN HandlerCalls(cfg.handlers, start0, RunningFlow) ELSE <<>>)
    \o (IF final.done \/ left.how = "exception"
        THEN HandlerCalls(cfg.handlers, RunningFlow, LastChange) ELSE <<>>)

\* C14 as claimed: in a run that has returned, the handler chain was called
\* exactly once, in registration order, for each change of the flow state
\* -- Pending -> Running, the state made by aggregation, the Failed state
\* made from a caught exception -- and the state returned is the chain's
\* output for the last change.
C14_HandlerPassThrough ==
    pc = "returned" =>
        /\ handlerLog = ClaimedCalls
        /\ (final.done \/ left.how = "exception") =>
              state = call_runner_target_handlers(cfg.handlers, RunningFlow, LastChange)

\* the call with start_tasks given as the flow's root tasks
ExplicitRoots == [cfg EXCEPT !.start = root_tasks(flow)]

\* C15 as claimed: a run with start_tasks omitted does what the run with
\* start_tasks = root tasks does: it walks the same tasks, dispatches each
\* with the ignore_trigger flag and the harvest of cached inputs of that
\* run, and stops on a supplied root state where that run stops.
C15_DefaultStartTasks ==
    cfg.start = {} =>
        /\ sorted_set(flow, cfg.start) = sorted_set(flow, ExplicitRoots.start)
        /\ \A t \in tasks(flow) :
              disp[t].done =>
                  /\ disp[t].ignore = IgnoreTrigger(ExplicitRoots, t)
                  /\ disp[t].inputs = (Harvests(ExplicitRoots, cfg.supplied, t)
                                          /\ ~cfg.supplied[t].val.list)
                  /\ ~HarvestFails(ExplicitRoots, cfg.supplied, t)

\* a start task for which the caller's task_states hold a Pending state
\* with cached inputs
RestartTask(t) == t \in cfg.start /\ cfg.supplied[t] = Value(SuppliedScalar("Pending"))

\* the unit of a restart task leaves the executor's queue in this step
RestartLeavesQueue(t) ==
    /\ RestartTask(t)
    /\ run' = run
    /\ phase[t] = "queued"
    /\ phase'[t] # "queued"

\* what every dispatch was given: a start task its supplied state, the
\* harvest of cached inputs when that state is a single state, and
\* ignore_trigger; every other task no harvest and no ignore_trigger
DispatchArguments ==
    \A t \in tasks(flow) :
        disp[t].done =>
            /\ disp[t].ignore = (t \in cfg.start)
            /\ disp[t].inputs =
                  (t \in cfg.start /\ cfg.supplied[t].kind = "value" /\ ~cfg.supplied[t].val.list)
            /\ t \in cfg.start => disp[t].state = cfg.supplied[t]
            /\ RestartTask(t) => (disp[t].inputs /\ disp[t].ignore)
            /\ t \notin cfg.start => (~disp[t].inputs /\ ~disp[t].ignore)
            /\ disp[t].inputs => disp[t].state.val.cached_inputs = "dict"

\* C16 as claimed: a start task with a supplied Pending state, once
\* dispatched, goes on to execute its user code whatever the states of its
\* upstream tasks.
C16_RestartAlwaysRuns ==
    [][\A t \in tasks(flow) : RestartLeavesQueue(t) => phase'[t] = "running"]_vars

\* C16 amended: a start task with a supplied Pending state whose
\* cached_inputs is a mapping is dispatched with that state, with the
\* cached inputs harvested from it and with ignore_trigger = true (no
\* dispatch harvests a state whose cached_inputs is None), and executes its user code whether its upstream
\* tasks are unfinished, failed or were never dispatched -- unless an
\* upstream state is Skipped, in which case check_upstream_skipped ends it
\* Skipped without running it; tasks not in start_tasks are dispatched
\* with no harvested inputs and ignore_trigger = false.
C16_RestartWithCachedInputs ==
    /\ [](DispatchArguments)
    /\ [][\A t \in tasks(flow) :
            RestartLeavesQueue(t) =>
                \/ phase'[t] = "running"
                \/ /\ phase'[t] = "done"
                   /\ result'[t] = Scalar("Skipped")
                   /\ \E s \in UpKinds(t) : is_skipped(s)]_vars

\* C16 witness: B is the one start task, with a supplied Pending state; its
\* upstream task A was never dispatched and B, handed the default Failed
\* state for A, is running.
C16_Witness ==
    /\ cfg.start = {"B"}
    /\ RestartTask("B")
    /\ ~disp["A"].done
    /\ disp["B"].done
    /\ disp["B"].up["A"] = Value(DefaultState)
    /\ disp["B"].inputs
    /\ disp["B"].ignore
    /\ phase["B"] = "running"

\* the waits of the dispatch loop, and those of aggregation
LoopWaits == SelectSeq(waits, LAMBDA w : w.at # "final")

FinalWaits == SelectSeq(waits, LAMBDA w : w.at = "final")

\* the mapped upstream units of task t that have not ended
PendingMappedUpstream(t) ==
    {u \in UpstreamMapped(flow, t) : disp[t].up[u].kind = "future" /\ phase[u] # "done"}

\* C17: every dispatched task has its future in task_states, and the loop
\* body of a task never stands still before its submit except in a call
\* of executor.wait; such a call is made for a task that is not mapped,
\* once, on exactly its upstream tasks that are mapped, and the submit
\* follows once their units have ended; a mapped task, or a task with no
\* mapped upstream, is handed over without a wait; and there is at most
\* one other wait, the last of all, made after every task was
\* dispatched, which returns once the units it waits on have ended.
C17_BlockingPoints ==
    /\ \A t \in tasks(flow) : disp[t].done => taskStates[t] = Future
    /\ \A i \in 1..Len(LoopWaits) :
          LET w == LoopWaits[i]
          IN  /\ disp[w.at].kind \in {"wait", "submit"}
              /\ ~mapped(flow, w.at)
              /\ w.on # {}
              /\ w.on = {u \in upstream_tasks(flow, w.at) : mapped(flow, u)}
              /\ \A j \in 1..Len(LoopWaits) : LoopWaits[j].at = w.at => j = i
    /\ \A t \in tasks(flow) :
          (disp[t].done /\ ~mapped(flow, t) /\ \E u \in upstream_tasks(flow, t) : mapped(flow, u))
              => \E i \in 1..Len(LoopWaits) : LoopWaits[i].at = t
    /\ \A t \in tasks(flow) :
          /\ (pc = "loop" /\ NextInOrder(t)) => ENABLED Dispatch(t)
          /\ disp[t].kind = "wait" <=> (pc = "wait" /\ waits # <<>> /\ waits[Len(waits)].at = t)
          /\ disp[t].kind = "wait" =>
                /\ ~disp[t].done
                /\ ENABLED SubmitAfterWait(t) <=> PendingMappedUpstream(t) = {}
    /\ pc = "wait" => \E t \in tasks(flow) : disp[t].kind = "wait"
    /\ Len(FinalWaits) <= 1
    /\ FinalWaits # <<>> =>
          /\ waits[Len(waits)].at = "final"
          /\ \A t \in sorted_set(flow, cfg.start) : disp[t].done
          /\ pc \in {"final_wait", "returned", "raised"}
    /\ pc = "final_wait" =>
          /\ FinalWaits # <<>>
          /\ ENABLED Collect <=>
                \A t \in waits[Len(waits)].on : taskStates[t].kind = "future" => phase[t] = "done"
    /\ final.done => Len(FinalWaits) = 1

\* C17 witness: the non-mapped C waited on its mapped upstream B during
\* the loop, once, and the only other wait is the last one, of aggregation.
C17_Witness ==
    /\ flow = "mapped"
    /\ final.done
    /\ Len(waits) = 2
    /\ waits[1] = [at |-> "C", on |-> {"B"}]
    /\ waits[2].at = "final"
    /\ dispatchOrder = <<"A", "B", "C">>
    /\ disp["C"].up["B"] = [kind |-> "waited", val |-> result["B"]]

\* the other case of C17, reached as well: the mapped task C was
\* dispatched after its mapped upstream B with no wait in the loop
C17_MappedDownstreamNoWait ==
    /\ flow = "mapchain"
    /\ final.done
    /\ waits = <<[at |-> "final", on |-> {"C"}]>>
    /\ Pos("B") < Pos("C")

\* the keys the run binds
RunKeys == {"_flow_name", "_flow_version", "_parameters", "_executor_id"}

\* C18: while run is inside the with block the process-wide context binds
\* _flow_name, _flow_version, _parameters and _executor_id to the run's
\* values, every other key of the caller's context to the caller's value
\* and every remaining key as before the call; before the block is
\* entered, and after run has returned or raised on any path, the context
\* has exactly the bindings it had before the call.
C18_ScopedContext ==
    /\ pc \in {"check", "set_running", "get_state", "loop", "wait", "final_wait"} =>
          /\ ctxPushed
          /\ DOMAIN context = RunKeys \cup DOMAIN cfg.context \cup DOMAIN cfg.prior
          /\ context["_flow_name"] = flow
          /\ context["_flow_version"] = "version"
          /\ context["_parameters"] = "parameters"
          /\ context["_executor_id"] = "executor"
          /\ \A k \in DOMAIN cfg.context \ RunKeys : context[k] = cfg.context[k]
          /\ \A k \in DOMAIN cfg.prior \ (RunKeys \cup DOMAIN cfg.context) : context[k] = cfg.prior[k]
    /\ pc \in {"start", "returned", "raised"} =>
          /\ ~ctxPushed
          /\ context = cfg.prior

\* C18 witness: the context held x and _flow_name before the call, the
\* caller's context rebinds x; the run trapped an exception and
\* re-raised it, and the context has its former bindings again.
C18_Witness ==
    /\ pc = "raised"
    /\ exc = "AssertionError"
    /\ cfg.prior = OuterContext
    /\ cfg.context = CallerContext
    /\ context = OuterContext
    /\ previous = OuterContext

\* the diamond run of the claim: A succeeded, B ran and ended Skipped, C
\* succeeded
SkippedBranch ==
    /\ flow = "diamond"
    /\ phase["A"] = "done" /\ result["A"] = Scalar("Success")
    /\ phase["B"] = "done" /\ result["B"] = Scalar("Skipped")
    /\ phase["C"] = "done" /\ result["C"] = Scalar("Success")

\* C19 as claimed: in that run D ends TriggerFailed and the flow is
\* classified Failed.
C19_DiamondTriggerFailed ==
    (SkippedBranch /\ final.done) =>
        /\ final.states["D"] = Scalar("TriggerFailed")
        /\ final.classified.type = "Failed"

\* C19 amended: in that run D never executes its user code:
\* check_upstream_skipped, which comes before check_trigger, ends D in
\* Skipped; D is the one terminal and reference task, its state is
\* finished and not failed, and the flow is classified Success.
C19_DiamondSkipped ==
    SkippedBranch =>
        /\ phase["D"] # "running"
        /\ phase["D"] = "done" => result["D"] = Scalar("Skipped")
        /\ final.done =>
              /\ final.states["D"] = Scalar("Skipped")
              /\ final.classified.type = "Success"
              /\ pc = "returned" /\ state = final.classified

\* C19 witness: the diamond run has returned, with B Skipped, C Success and
\* D Skipped in the result.
C19_Witness ==
    /\ SkippedBranch
    /\ final.done
    /\ pc = "returned"
    /\ cfg.ret = {"D"}
    /\ state.result.map["D"] = Scalar("Skipped")
    /\ state.type = "Success"

\* the call has ended
Ended == pc \in {"returned", "raised"}

\* the dispatch loop has run to its end
LoopCompleted == FinalWaits # <<>>

\* no task is dispatched twice, none outside the tasks start_tasks reach,
\* and every task they reach once the loop has run to its end; a task has
\* a unit, and a future in task_states, exactly when it was dispatched
DispatchedOnce ==
    /\ \A i, j \in 1..Len(dispatchOrder) : dispatchOrder[i] = dispatchOrder[j] => i = j
    /\ Range(dispatchOrder) \subseteq sorted_set(flow, cfg.start)
    /\ LoopCompleted => Range(dispatchOrder) = sorted_set(flow, cfg.start)
    /\ \A t \in tasks(flow) :
          /\ disp[t].done <=> t \in Range(dispatchOrder)
          /\ disp[t].done <=> taskStates[t] = Future
          /\ disp[t].done <=> phase[t] # "none"

\* within one call of run: the entry of a dispatched task is never written
\* again, task_states is written by no step of a dispatched unit, and a
\* unit that has ended keeps the one state it ended in
WrittenOnce ==
    run' = run =>
        /\ \A t \in tasks(flow) :
              /\ disp[t].done => (taskStates'[t] = taskStates[t] /\ disp'[t] = disp[t])
              /\ phase[t] = "done" => (phase'[t] = "done" /\ result'[t] = result[t])
              /\ phase'[t] # phase[t] =>
                    IF disp[t].done THEN taskStates' = taskStates
                    ELSE taskStates'[t] = Future /\ phase'[t] = "queued"
        /\ taskStates' # taskStates =>
              (pc \in {"get_state", "loop", "wait"} /\ result' = result)

\* C20 as claimed: in a call of run that has ended every task that
\* start_tasks reach was dispatched exactly once and no other task was
\* dispatched; a task has a unit, and a future in task_states, exactly when
\* it was dispatched.
C20_ExactlyOncePerRun ==
    /\ \A i, j \in 1..Len(dispatchOrder) : dispatchOrder[i] = dispatchOrder[j] => i = j
    /\ Range(dispatchOrder) \subseteq sorted_set(flow, cfg.start)
    /\ Ended => Range(dispatchOrder) = sorted_set(flow, cfg.start)
    /\ \A t \in tasks(flow) : disp[t].done <=> taskStates[t] = Future

\* C20 amended: in one call of run every task is dispatched at most once -- never
\* when start_tasks do not reach it, exactly once when they do and the
\* dispatch loop runs to its end; the task_states entry of a dispatched
\* task is written once, by the dispatch, and never by a unit; and a task
\* gets at most one final state.
C20_AtMostOneCompletion == [](DispatchedOnce) /\ [][WrittenOnce]_vars

\* C20 witness: start_tasks = {B} on A -> B -> C; the run has returned; B
\* and C were dispatched once each and have one final state each; A was
\* never dispatched and its entry is the default state inserted by the
\* read of B's upstream.
C20_Witness ==
    /\ flow = "linear"
    /\ cfg.start = {"B"}
    /\ final.done
    /\ dispatchOrder = <<"B", "C">>
    /\ phase = [t \in tasks(flow) |-> IF t = "A" THEN "none" ELSE "done"]
    /\ taskStates["A"] = Value(DefaultState)

\* a task the run does not dispatch and the caller supplied no state for
Unknown(t) == ~disp[t].done /\ cfg.supplied[t].kind = "absent"

\* the tasks whose final state aggregation has read: the terminal and
\* reference tasks and the return tasks, failed tasks included under
\* return_failed -- or those read before a KeyError
ReadAtAggregation == final.read

\* C21 as claimed: a task that is not dispatched and has no supplied state
\* reads as Failed("Task state not available.") as an upstream state of a
\* task the loop reaches and, once the loop has run to its end, as a terminal,
\* reference or return task of the classification; with such a reference
\* task the run is classified Failed, or Pending on account of an
\* unfinished state of another terminal task.
C21_DefaultStateForUnknownTasks ==
    /\ \A t \in tasks(flow) : disp[t].kind # "" =>
          \A u \in upstream_tasks(flow, t) :
              Unknown(u) => disp[t].up[u] = Value(DefaultState)
    /\ (LoopCompleted /\ pc \in {"returned", "raised"}) =>
          /\ final.done
          /\ ReadAtAggregation = terminal_tasks(flow) \cup cfg.ref \cup final.ret
          /\ \A t \in ReadAtAggregation : Unknown(t) => final.states[t] = DefaultState
          /\ \A t \in cfg.ret : Unknown(t) =>
                (state.result.has /\ t \in DOMAIN state.result.map
                    /\ state.result.map[t] = DefaultState)
          /\ (\E t \in cfg.ref : Unknown(t)) =>
                \/ final.classified.type = "Failed"
                      /\ final.classified.message = "Some reference tasks failed."
                \/ final.classified.type = "Pending" /\ ~TerminalsFinished

\* a start task the caller supplied a scalar state for that is not of the
\* Pending family
BadStart(t) ==
    /\ t \in cfg.start
    /\ cfg.supplied[t].kind = "value"
    /\ ~cfg.supplied[t].val.list
    /\ ~is_pending(cfg.supplied[t].val.st[1])

BadStarts == {t \in tasks(flow) : BadStart(t)}

\* the call got as far as the dispatch loop: it is in the loop or in one
\* of its waits, or it left the try block from there
ReachedLoop == ExecutorRunning \/ final.done \/ left.at \in {"loop", "wait", "final_wait"}

\* C22: a start task with a supplied scalar state that is not Pending is
\* never dispatched, nor is any task downstream of it; a call that reaches
\* the loop with such a start task ends with AssertionError, without any
\* wait or classification of aggregation, returning Failed with no result
\* mapping, or raising under _raise_on_exception; AssertionError comes
\* from such a task only, so a start task with a supplied list state is
\* dispatched like any other.
C22_NonPendingStartTaskAborts ==
    /\ BadStarts # {} => Range(dispatchOrder) \cap sorted_set(flow, BadStarts) = {}
    /\ (Ended /\ ReachedLoop /\ BadStarts # {}) =>
          /\ exc = "AssertionError"
          /\ left = [how |-> "exception", at |-> "loop", carried |-> left.carried]
          /\ ~final.done
          /\ ~LoopCompleted
          /\ IF cfg.roe THEN pc = "raised"
             ELSE pc = "returned" /\ state = FlowState("Failed", "AssertionError", NoResult)
    /\ exc = "AssertionError" => BadStarts # {}
    /\ (LoopCompleted /\ BadStarts = {}) =>
          \A t \in cfg.start : cfg.supplied[t].kind = "value" =>
              /\ disp[t].done
              /\ disp[t].state = cfg.supplied[t]
              /\ disp[t].inputs = ~cfg.supplied[t].val.list

\* C22 witness: on A -> B -> C with start_tasks = {A, B} and Success
\* supplied for B, A was dispatched, the loop raised at B, and run
\* returned Failed(AssertionError) with B and C never dispatched.
C22_Witness ==
    /\ cfg.start = {"A", "B"}
    /\ BadStart("B")
    /\ pc = "returned"
    /\ state = FlowState("Failed", "AssertionError", NoResult)
    /\ dispatchOrder = <<"A">>
    /\ ~final.done

\* an upstream task of a task the loop has reached, whether the task was
\* handed to the executor, is in the loop's wait, or raised in its harvest
ReadAsUpstream(u) == \E t \in tasks(flow) : disp[t].kind # "" /\ u \in upstream_tasks(flow, t)

\* C23 as claimed: an unknown task read as an upstream state has the
\* default Failed state in the working task_states, and a call with
\* return_failed whose loop has run to its end returns a result mapping
\* that holds every such task with the default Failed state and no other
\* unknown task outside return_tasks.
C23_ReturnFailedReportsUnknownUpstream ==
    /\ \A u \in tasks(flow) :
          (Unknown(u) /\ ReadAsUpstream(u)) => taskStates[u] = Value(DefaultState)
    /\ (Ended /\ LoopCompleted /\ cfg.retFailed) =>
          /\ state.result.has
          /\ \A u \in tasks(flow) :
                (Unknown(u) /\ ReadAsUpstream(u)) =>
                    (u \in ResultKeys(state) /\ state.result.map[u] = DefaultState)
          /\ \A u \in tasks(flow) :
                (Unknown(u) /\ ~ReadAsUpstream(u) /\ u \notin cfg.ret) =>
                    u \notin ResultKeys(state)

=============================================================================
